---- MODULE Spec2Model ----
(***************************************************************************)
(* A model of the fastgltf JSON-to-Asset translation (src/src/fastgltf.cpp):*)
(* Parser::loadGLTF, the glTF handle with its eight entity parsers, the URI *)
(* resolver (decodeUri), the texture extension dispatch and asset retrieval.*)
(*                                                                         *)
(* JSON values are abstracted by what a simdjson lookup can report about    *)
(* them: a type tag and, for unsigned integers and strings, a payload.      *)
(* Strings are sequences of one-character strings, so that substr/find of   *)
(* decodeUri are computed as the code computes them.                        *)
(***************************************************************************)
EXTENDS Integers, Sequences, FiniteSets, TLC

\* ------------------------------------------------------------------ bounds
MaxLen == 2        \* longest top-level array in an input document
MaxCalls == 2      \* how many entity-parser calls are made on one handle

\* ------------------------------------------------------------------ strings
mimeTypeJpeg == <<"i","m","a","g","e","/","j","p","e","g">>
mimeTypePng == <<"i","m","a","g","e","/","p","n","g">>
mimeTypeKtx == <<"i","m","a","g","e","/","k","t","x","2">>
mimeTypeDds == <<"i","m","a","g","e","/","v","n","d","-","m","s",".","d","d","s">>
mimeTypeGltfBuffer == <<"a","p","p","l","i","c","a","t","i","o","n","/","g","l","t","f","-","b","u","f","f","e","r">>
mimeTypeOctetStream == <<"a","p","p","l","i","c","a","t","i","o","n","/","o","c","t","e","t","-","s","t","r","e","a","m">>

sDataColon == <<"d","a","t","a",":">>
sBase64 == <<"b","a","s","e","6","4">>
sPayload == <<"A","A","A","A">>

\* The strings that occur in the input documents; a JSON string value carries
\* its index in this table.
StrTab ==
  << sDataColon \o mimeTypeOctetStream \o <<";">> \o sBase64 \o <<",">> \o sPayload,  \* 1
     <<"m","e","s","h",".","b","i","n">>,                                             \* 2
     sDataColon \o mimeTypePng \o <<";">> \o sBase64,                                 \* 3 no comma
     sDataColon \o mimeTypePng \o <<";">> \o <<"h","e","x">> \o <<",">> \o sPayload,    \* 4 not base64
     <<"d","a","t","a","/","m","e","s","h",".","b","i","n">>,                          \* 5
     mimeTypePng,                                                                     \* 6
     mimeTypeOctetStream,                                                             \* 7
     <<"t","e","x","t">>,                                                             \* 8
     <<"S","C","A","L","A","R">>,                                                     \* 9
     <<"V","E","C","3">>,                                                             \* 10
     <<"n">>,                                                                         \* 11
     sDataColon \o mimeTypePng \o <<",">> \o sPayload,                                 \* 12 no semicolon
     sDataColon \o <<",">> \o sPayload \o <<";">> \o sBase64 >>                         \* 13 no comma after the semicolon

NoString == 0   \* an entity's string member that was never assigned

\* std::string_view::npos, and the 0-based std::string_view operations used
\* by decodeUri.
npos == -1

Find(s, c, from) ==
  LET hits == {i \in 0..(Len(s) - 1) : i >= from /\ s[i + 1] = c}
  IN  IF hits = {} THEN npos ELSE CHOOSE i \in hits : \A j \in hits : i <= j

Min(a, b) == IF a <= b THEN a ELSE b

\* substr(pos, count): count is clipped to the end of the string
Substr(s, pos, count) ==
  LET n == Min(count, Len(s) - pos)
  IN  IF n <= 0 THEN <<>> ELSE SubSeq(s, pos + 1, pos + n)

SubstrFrom(s, pos) == Substr(s, pos, Len(s))

\* ------------------------------------------------------------------ JSON
\* What a field lookup yields: t is the JSON type found ("absent" when the
\* key does not exist), n the value of an unsigned integer or the StrTab
\* index of a string.
JTypes == {"absent", "uint", "int", "dbl", "str", "bool", "obj", "arr", "null"}

Absent == [t |-> "absent", n |-> 0]
U(n) == [t |-> "uint", n |-> n]
S(i) == [t |-> "str", n |-> i]
J(t) == [t |-> t, n |-> 0]

get_uint64(v) == v.t = "uint"
get_string(v) == v.t = "str"
get_bool(v) == v.t = "bool"
get_double(v) == v.t \in {"uint", "int", "dbl"}
present(v) == v.t # "absent"

\* A field that holds an array: t is "arr" when get_array succeeds, a its
\* elements.
AbsentArr == [t |-> "absent", a |-> <<>>]
OtherArr == [t |-> "other", a |-> <<>>]
Arr(a) == [t |-> "arr", a |-> a]

\* std::optional-like members
Unset == [has |-> FALSE, v |-> 0]
Opt(n) == [has |-> TRUE, v |-> n]

\* ------------------------------------------------------------------ options
Options == {"DontUseSIMD", "AllowDouble", "DontRequireValidAssetMember",
            "LoadKTXExtension", "LoadDDSExtension"}

hasBit(options, o) == o \in options

\* ------------------------------------------------------------------ errors
Errors == {"None", "InvalidPath", "InvalidJson", "InvalidOrMissingAssetField",
           "InvalidGltf"}

\* ------------------------------------------------------------------ data sources
MimeTypes == {"None", "JPEG", "PNG", "KTX2", "DDS", "GltfBuffer", "OctetStream"}

\* The value of a DataLocation member that no statement has assigned.
DefaultLocation == "None"

\* fg::DataSource {}: bytes is the result of a base64 primitive applied to
\* an input, kept symbolically as the pair (primitive, input).
NoBytes == [decoder |-> "none", input |-> <<>>]
EmptyDataSource ==
  [mimeType |-> "None", bytes |-> NoBytes, path |-> <<>>, bufferViewIndex |-> 0]

getMimeTypeFromString(mime) ==
  IF mime = mimeTypeJpeg THEN "JPEG"
  ELSE IF mime = mimeTypePng THEN "PNG"
  ELSE IF mime = mimeTypeKtx THEN "KTX2"
  ELSE IF mime = mimeTypeDds THEN "DDS"
  ELSE IF mime = mimeTypeGltfBuffer THEN "GltfBuffer"
  ELSE IF mime = mimeTypeOctetStream THEN "OctetStream"
  ELSE "None"

UriFailure ==
  [error |-> "InvalidGltf", source |-> EmptyDataSource, location |-> "None"]

\* decodeUri decoding the payload whatever the encoding is called
decodeUriAnyEncoding(uri, directory, options) ==
  IF Substr(uri, 0, 4) = <<"d","a","t","a">>
  THEN LET index == Find(uri, ";", 0)
           encodingEnd == Find(uri, ",", IF index = npos THEN 0 ELSE index + 1)
       IN  IF index = npos \/ encodingEnd = npos
           THEN UriFailure
           ELSE [error |-> "None",
                 source |-> [EmptyDataSource EXCEPT
                    !.mimeType = getMimeTypeFromString(Substr(uri, 5, index - 5)),
                    !.bytes = [decoder |-> IF hasBit(options, "DontUseSIMD")
                                           THEN "fallback_decode" ELSE "decode",
                               input |-> SubstrFrom(uri, encodingEnd)]],
                 location |-> "VectorWithMime"]
  ELSE [error |-> "None",
        source |-> [EmptyDataSource EXCEPT !.path = <<directory>> \o uri],
        location |-> "FilePathWithByteRange"]

\* glTF::decodeUri. index + 1 wraps to 0 when find(';') returned npos.
decodeUri(uri, directory, options) ==
  IF Substr(uri, 0, 4) = <<"d","a","t","a">>
  THEN LET index == Find(uri, ";", 0)
           encodingEnd == Find(uri, ",", IF index = npos THEN 0 ELSE index + 1)
       IN  IF index = npos \/ encodingEnd = npos
           THEN UriFailure
           ELSE LET encoding == Substr(uri, index + 1, encodingEnd - index - 1)
                    encodedData == SubstrFrom(uri, encodingEnd)
                IN  IF encoding # sBase64
                    THEN UriFailure
                    ELSE [error |-> "None",
                          source |-> [EmptyDataSource EXCEPT
                             !.mimeType = getMimeTypeFromString(Substr(uri, 5, index - 5)),
                             !.bytes = [decoder |-> IF hasBit(options, "DontUseSIMD")
                                                    THEN "fallback_decode" ELSE "decode",
                                        input |-> encodedData]],
                          location |-> "VectorWithMime"]
  ELSE [error |-> "None",
        source |-> [EmptyDataSource EXCEPT !.path = <<directory>> \o uri],
        location |-> "FilePathWithByteRange"]

\* ------------------------------------------------------------------ iterateOverArray
\* The callback is given by cb: cb[i] is [ok, ent], what the callback returns
\* on the i-th element (ok) and what it appends when it returns true (ent).
\* The result is the returned pair (found, error), the entities appended by
\* the callbacks that ran, in the order they ran, and how many elements the
\* callback was invoked on.
FirstFailing(cb) ==
  LET bad == {i \in 1..Len(cb) : ~cb[i].ok}
  IN  IF bad = {} THEN 0 ELSE CHOOSE i \in bad : \A j \in bad : i <= j

\* iterateOverArray reporting a value that is not an array as an error
iterateOverArrayStrict(av, cb) ==
  IF av.t # "arr"
  THEN [found |-> FALSE, error |-> "InvalidGltf", out |-> <<>>, visited |-> 0]
  ELSE LET ff == FirstFailing(cb)
       IN  IF ff # 0
           THEN [found |-> FALSE, error |-> "InvalidGltf",
                 out |-> [i \in 1..(ff - 1) |-> cb[i].ent], visited |-> ff]
           ELSE [found |-> TRUE, error |-> "None",
                 out |-> [i \in 1..Len(cb) |-> cb[i].ent], visited |-> Len(cb)]

\* iterateOverArray going on to the next element after a callback failed
iterateOverArrayContinue(av, cb) ==
  IF av.t # "arr"
  THEN [found |-> FALSE, error |-> "None", out |-> <<>>, visited |-> 0]
  ELSE LET ok == SelectSeq(cb, LAMBDA c : c.ok)
       IN  [found |-> FirstFailing(cb) = 0,
            error |-> IF FirstFailing(cb) = 0 THEN "None" ELSE "InvalidGltf",
            out |-> [i \in 1..Len(ok) |-> ok[i].ent], visited |-> Len(cb)]

\* iterateOverArray walking the array from its end
iterateOverArrayReversed(av, cb) ==
  IF av.t # "arr"
  THEN [found |-> FALSE, error |-> "None", out |-> <<>>, visited |-> 0]
  ELSE LET n == Len(cb)
           bad == {i \in 1..n : ~cb[i].ok}
           lf == IF bad = {} THEN 0 ELSE CHOOSE i \in bad : \A j \in bad : i >= j
       IN  IF lf # 0
           THEN [found |-> FALSE, error |-> "InvalidGltf",
                 out |-> [i \in 1..(n - lf) |-> cb[n + 1 - i].ent],
                 visited |-> n + 1 - lf]
           ELSE [found |-> TRUE, error |-> "None",
                 out |-> [i \in 1..n |-> cb[n + 1 - i].ent], visited |-> n]

iterateOverArray(av, cb) ==
  IF av.t # "arr"
  THEN [found |-> FALSE, error |-> "None", out |-> <<>>, visited |-> 0]
  ELSE LET ff == FirstFailing(cb)
       IN  IF ff # 0
           THEN [found |-> FALSE, error |-> "InvalidGltf",
                 out |-> [i \in 1..(ff - 1) |-> cb[i].ent], visited |-> ff]
           ELSE [found |-> TRUE, error |-> "None",
                 out |-> [i \in 1..Len(cb) |-> cb[i].ent], visited |-> Len(cb)]

\* ------------------------------------------------------------------ buffers
NoBuffer ==
  [byteLength |-> 0, data |-> EmptyDataSource, location |-> DefaultLocation,
   name |-> NoString]

Reject(ent) == [ok |-> FALSE, ent |-> ent]
Accept(ent) == [ok |-> TRUE, ent |-> ent]

NameOf(v) == IF get_string(v) THEN v.n ELSE NoString

\* BufferCallback without the test of the location
BufferCallbackNoLocationCheck(value, directory, options) ==
  IF ~value.obj THEN Reject(NoBuffer)
  ELSE IF ~get_uint64(value.byteLength) THEN Reject(NoBuffer)
  ELSE LET r == decodeUri(StrTab[value.uri.n], directory, options)
           buffer == IF get_string(value.uri) /\ r.error = "None"
                     THEN [NoBuffer EXCEPT !.byteLength = value.byteLength.n,
                                           !.data = r.source,
                                           !.location = r.location]
                     ELSE [NoBuffer EXCEPT !.byteLength = value.byteLength.n]
       IN  IF get_string(value.uri) /\ r.error # "None" THEN Reject(NoBuffer)
           ELSE Accept([buffer EXCEPT !.name = NameOf(value.name)])

\* the callback of parseBuffers
BufferCallback(value, directory, options) ==
  IF ~value.obj THEN Reject(NoBuffer)
  ELSE IF ~get_uint64(value.byteLength) THEN Reject(NoBuffer)
  ELSE LET r == decodeUri(StrTab[value.uri.n], directory, options)
           buffer == IF get_string(value.uri) /\ r.error = "None"
                     THEN [NoBuffer EXCEPT !.byteLength = value.byteLength.n,
                                           !.data = r.source,
                                           !.location = r.location]
                     ELSE [NoBuffer EXCEPT !.byteLength = value.byteLength.n]
       IN  IF get_string(value.uri) /\ r.error # "None" THEN Reject(NoBuffer)
           ELSE IF buffer.location = "None" THEN Reject(NoBuffer)
           ELSE Accept([buffer EXCEPT !.name = NameOf(value.name)])

\* ------------------------------------------------------------------ bufferViews
NoBufferView ==
  [bufferIndex |-> 0, byteLength |-> 0, byteOffset |-> 0, byteStride |-> Unset,
   target |-> Unset, name |-> NoString]

OptOf(v) == IF get_uint64(v) THEN Opt(v.n) ELSE Unset

\* the callback of parseBufferViews
BufferViewCallback(value) ==
  IF ~value.obj THEN Reject(NoBufferView)
  ELSE IF ~get_uint64(value.buffer) THEN Reject(NoBufferView)
  ELSE IF ~get_uint64(value.byteLength) THEN Reject(NoBufferView)
  ELSE Accept([bufferIndex |-> value.buffer.n,
               byteLength |-> value.byteLength.n,
               byteOffset |-> IF get_uint64(value.byteOffset)
                              THEN value.byteOffset.n ELSE 0,
               byteStride |-> OptOf(value.byteStride),
               target |-> OptOf(value.target),
               name |-> NameOf(value.name)])

\* ------------------------------------------------------------------ accessors
\* getComponentType: the glTF component type constants
getComponentType(componentType) ==
  CASE componentType = 5120 -> "Byte"
    [] componentType = 5121 -> "UnsignedByte"
    [] componentType = 5122 -> "Short"
    [] componentType = 5123 -> "UnsignedShort"
    [] componentType = 5125 -> "UnsignedInt"
    [] componentType = 5126 -> "Float"
    [] componentType = 5130 -> "Double"
    [] OTHER -> "Invalid"

\* getAccessorType: the glTF accessor type names
getAccessorType(accessorType) ==
  IF accessorType = <<"S","C","A","L","A","R">> THEN "Scalar"
  ELSE IF accessorType = <<"V","E","C","3">> THEN "Vec3"
  ELSE "Invalid"

NoAccessor ==
  [componentType |-> "Invalid", type |-> "Invalid", count |-> 0,
   bufferViewIndex |-> Unset, byteOffset |-> 0, normalized |-> FALSE,
   name |-> NoString]

\* AccessorCallback refusing every double, whatever the options
AccessorCallbackNoAllowDouble(value, options) ==
  IF ~value.obj THEN Reject(NoAccessor)
  ELSE IF ~get_uint64(value.componentType) THEN Reject(NoAccessor)
  ELSE IF getComponentType(value.componentType.n) = "Double" THEN Reject(NoAccessor)
  ELSE IF ~get_string(value.type) THEN Reject(NoAccessor)
  ELSE IF ~get_uint64(value.count) THEN Reject(NoAccessor)
  ELSE Accept([componentType |-> getComponentType(value.componentType.n),
               type |-> getAccessorType(StrTab[value.type.n]),
               count |-> value.count.n,
               bufferViewIndex |-> OptOf(value.bufferView),
               byteOffset |-> IF get_uint64(value.byteOffset)
                              THEN value.byteOffset.n ELSE 0,
               normalized |-> get_bool(value.normalized) /\ value.normalized.n = 1,
               name |-> NameOf(value.name)])

\* the callback of parseAccessors; a JSON boolean carries 1 for true
AccessorCallback(value, options) ==
  IF ~value.obj THEN Reject(NoAccessor)
  ELSE IF ~get_uint64(value.componentType) THEN Reject(NoAccessor)
  ELSE IF getComponentType(value.componentType.n) = "Double"
          /\ ~hasBit(options, "AllowDouble") THEN Reject(NoAccessor)
  ELSE IF ~get_string(value.type) THEN Reject(NoAccessor)
  ELSE IF ~get_uint64(value.count) THEN Reject(NoAccessor)
  ELSE Accept([componentType |-> getComponentType(value.componentType.n),
               type |-> getAccessorType(StrTab[value.type.n]),
               count |-> value.count.n,
               bufferViewIndex |-> OptOf(value.bufferView),
               byteOffset |-> IF get_uint64(value.byteOffset)
                              THEN value.byteOffset.n ELSE 0,
               normalized |-> get_bool(value.normalized) /\ value.normalized.n = 1,
               name |-> NameOf(value.name)])

\* ------------------------------------------------------------------ images
NoImage ==
  [data |-> EmptyDataSource, location |-> DefaultLocation, name |-> NoString]

\* ImageAfterUri without the test that bufferView is not declared
ImageAfterUriNoExclusion(value, directory, options) ==
  IF ~get_string(value.uri) THEN Accept(NoImage)
  ELSE LET r == decodeUri(StrTab[value.uri.n], directory, options)
       IN  IF r.error # "None" THEN Reject(NoImage)
           ELSE Accept([NoImage EXCEPT
                  !.data = IF get_string(value.mimeType)
                           THEN [r.source EXCEPT !.mimeType =
                                   getMimeTypeFromString(StrTab[value.mimeType.n])]
                           ELSE r.source,
                  !.location = r.location])

\* the first block of the callback of parseImages: the uri
ImageAfterUri(value, directory, options) ==
  IF ~get_string(value.uri) THEN Accept(NoImage)
  ELSE IF present(value.bufferView) THEN Reject(NoImage)
  ELSE LET r == decodeUri(StrTab[value.uri.n], directory, options)
       IN  IF r.error # "None" THEN Reject(NoImage)
           ELSE Accept([NoImage EXCEPT
                  !.data = IF get_string(value.mimeType)
                           THEN [r.source EXCEPT !.mimeType =
                                   getMimeTypeFromString(StrTab[value.mimeType.n])]
                           ELSE r.source,
                  !.location = r.location])

\* the second block: the bufferView
ImageAfterBufferView(value, image) ==
  IF ~get_uint64(value.bufferView) THEN Accept(image)
  ELSE IF ~get_string(value.mimeType) THEN Reject(NoImage)
  ELSE Accept([image EXCEPT
         !.data.bufferViewIndex = value.bufferView.n,
         !.data.mimeType = getMimeTypeFromString(StrTab[value.mimeType.n])])

\* the callback of parseImages
ImageCallback(value, directory, options) ==
  IF ~value.obj THEN Reject(NoImage)
  ELSE LET a == ImageAfterUri(value, directory, options)
       IN  IF ~a.ok THEN Reject(NoImage)
           ELSE LET b == ImageAfterBufferView(value, a.ent)
                IN  IF ~b.ok THEN Reject(NoImage)
                    ELSE IF b.ent.location = "None" THEN Reject(NoImage)
                    ELSE Accept([b.ent EXCEPT !.name = NameOf(value.name)])

\* ------------------------------------------------------------------ textures
\* std::numeric_limits<size_t>::max(), 2^64 - 1: the 64-bit value with all
\* bits set, written as -1. A JSON unsigned integer can have this value.
SizeMax == -1

\* A value under a texture's "extensions": t says whether it is an object;
\* basisu and dds are what is found under the two recognized keys, each with
\* its own t and its "source" field.
NoNested == [t |-> "absent", source |-> Absent]
NoExtensions == [t |-> "absent", basisu |-> NoNested, dds |-> NoNested]

ExtensionValue(extensions, extension) ==
  IF extension = "KHR_texture_basisu" THEN extensions.basisu ELSE extensions.dds

\* getImageIndexForExtension: the tuple it returns, with the names the
\* caller binds it to
getImageIndexForExtension(object, extension) ==
  LET sourceExtensionObject == ExtensionValue(object, extension)
  IN  IF sourceExtensionObject.t # "obj"
      THEN [invalidGltf |-> FALSE, extensionNotPresent |-> TRUE, imageIndex |-> 0]
      ELSE IF ~get_uint64(sourceExtensionObject.source)
      THEN [invalidGltf |-> TRUE, extensionNotPresent |-> FALSE, imageIndex |-> 0]
      ELSE [invalidGltf |-> FALSE, extensionNotPresent |-> FALSE,
            imageIndex |-> sourceExtensionObject.source.n]

\* parseTextureExtensions: [ok, ent] with ent the texture as it leaves
ExtensionStep(texture, extensions, enabled, extension, Rest) ==
  IF ~enabled THEN Rest
  ELSE LET r == getImageIndexForExtension(extensions, extension)
       IN  IF r.invalidGltf THEN Reject(texture)
           ELSE IF ~r.extensionNotPresent
           THEN Accept([texture EXCEPT !.imageIndex = r.imageIndex])
           ELSE Rest

\* parseTextureExtensions asking for MSFT_texture_dds first
parseTextureExtensionsDdsFirst(texture, extensions, options) ==
  ExtensionStep(texture, extensions, hasBit(options, "LoadDDSExtension"),
                "MSFT_texture_dds",
    ExtensionStep(texture, extensions, hasBit(options, "LoadKTXExtension"),
                  "KHR_texture_basisu",
      Reject(texture)))

parseTextureExtensions(texture, extensions, options) ==
  ExtensionStep(texture, extensions, hasBit(options, "LoadKTXExtension"),
                "KHR_texture_basisu",
    ExtensionStep(texture, extensions, hasBit(options, "LoadDDSExtension"),
                  "MSFT_texture_dds",
      Reject(texture)))

NoTexture ==
  [imageIndex |-> SizeMax, fallbackImageIndex |-> Unset, samplerIndex |-> Unset,
   name |-> NoString]

\* the callback of parseTextures
TextureCallback(value, options) ==
  IF ~value.obj THEN Reject(NoTexture)
  ELSE LET hasExtensions == value.extensions.t = "obj"
           base == [NoTexture EXCEPT !.imageIndex =
                      IF get_uint64(value.source) THEN value.source.n ELSE SizeMax]
       IN  IF ~get_uint64(value.source) /\ ~hasExtensions THEN Reject(NoTexture)
           ELSE LET withFallback ==
                      IF hasExtensions /\ base.imageIndex # SizeMax
                      THEN [base EXCEPT !.fallbackImageIndex = Opt(base.imageIndex)]
                      ELSE base
                    r == IF hasExtensions
                         THEN parseTextureExtensions(withFallback, value.extensions, options)
                         ELSE Accept(withFallback)
                IN  IF ~r.ok THEN Reject(NoTexture)
                    ELSE Accept([r.ent EXCEPT
                           !.samplerIndex = OptOf(value.sampler),
                           !.name = NameOf(value.name)])

\* ------------------------------------------------------------------ meshes
\* A primitive's "attributes": t says whether it is an object, a holds the
\* values of its keys in document order (the k-th key is named by k).
NoAttributes == [t |-> "absent", a |-> <<>>]

NoPrimitive ==
  [attributes |-> <<>>, type |-> 0, indicesAccessor |-> Unset,
   materialIndex |-> Unset]

\* PrimitiveCallback leaving the value-initialised type when "mode" is missing
PrimitiveCallbackNoModeDefault(value) ==
  IF ~value.obj THEN Reject(NoPrimitive)
  ELSE IF value.attributes.t # "obj" THEN Reject(NoPrimitive)
  ELSE IF \E k \in 1..Len(value.attributes.a) : ~get_uint64(value.attributes.a[k])
       THEN Reject(NoPrimitive)
  ELSE Accept([attributes |-> [k \in 1..Len(value.attributes.a) |->
                                 value.attributes.a[k].n],
               type |-> IF get_uint64(value.mode) THEN value.mode.n ELSE 0,
               indicesAccessor |-> OptOf(value.indices),
               materialIndex |-> OptOf(value.material)])

\* the callback handed to iterateOverArray for "primitives"
PrimitiveCallback(value) ==
  IF ~value.obj THEN Reject(NoPrimitive)
  ELSE IF value.attributes.t # "obj" THEN Reject(NoPrimitive)
  ELSE IF \E k \in 1..Len(value.attributes.a) : ~get_uint64(value.attributes.a[k])
       THEN Reject(NoPrimitive)
  ELSE Accept([attributes |-> [k \in 1..Len(value.attributes.a) |->
                                 value.attributes.a[k].n],
               type |-> IF get_uint64(value.mode) THEN value.mode.n ELSE 4,
               indicesAccessor |-> OptOf(value.indices),
               materialIndex |-> OptOf(value.material)])

NoMesh == [primitives |-> <<>>, name |-> NoString]

\* MeshCallback treating "primitives" as required
MeshCallbackRequiresPrimitives(value) ==
  IF ~value.obj THEN Reject(NoMesh)
  ELSE LET r == iterateOverArray(value.primitives,
                  [i \in 1..Len(value.primitives.a) |->
                     PrimitiveCallback(value.primitives.a[i])])
       IN  IF ~r.found THEN Reject(NoMesh)
           ELSE Accept([primitives |-> r.out, name |-> NameOf(value.name)])

\* the callback of parseMeshes. When it rejects because of its primitives it
\* has set errorCode to InvalidGltf itself; parseMeshes then assigns the same
\* code again.
MeshCallback(value) ==
  IF ~value.obj THEN Reject(NoMesh)
  ELSE LET r == iterateOverArray(value.primitives,
                  [i \in 1..Len(value.primitives.a) |->
                     PrimitiveCallback(value.primitives.a[i])])
       IN  IF ~r.found /\ r.error # "None" THEN Reject(NoMesh)
           ELSE Accept([primitives |-> r.out, name |-> NameOf(value.name)])

\* ------------------------------------------------------------------ nodes
MatrixSize == 16

ZeroMatrix == [k \in 0..(MatrixSize - 1) |-> 0]

NoNode ==
  [meshIndex |-> Unset, children |-> <<>>, hasMatrix |-> FALSE,
   matrix |-> ZeroMatrix, name |-> NoString]

\* the callback handed to iterateOverArray for "children" and for a scene's
\* "nodes"
IndexCallback(value) ==
  IF ~get_uint64(value) THEN Reject(0) ELSE Accept(value.n)

\* The matrix loop: the entries before the first one that is not a number
\* are stored one after the other at matrix[i], and i stays 0.
NumericPrefix(a) ==
  LET bad == {k \in 1..Len(a) : ~get_double(a[k])}
  IN  IF bad = {} THEN Len(a)
      ELSE (CHOOSE k \in bad : \A j \in bad : k <= j) - 1

MatrixLoopKeepsFlag(node, a) ==
  LET n == NumericPrefix(a)
  IN  [node EXCEPT !.hasMatrix = TRUE,
                   !.matrix = IF n = 0 THEN node.matrix
                              ELSE [node.matrix EXCEPT ![0] = a[n].n]]

MatrixLoop(node, a) ==
  LET n == NumericPrefix(a)
  IN  [node EXCEPT !.hasMatrix = (n = Len(a)),
                   !.matrix = IF n = 0 THEN node.matrix
                              ELSE [node.matrix EXCEPT ![0] = a[n].n]]

\* the test on the children's result in the callback of parseNodes
ChildrenFailed(r) == r.found /\ r.error # "None"

\* the callback of parseNodes
NodeCallback(value) ==
  IF ~value.obj THEN Reject(NoNode)
  ELSE LET r == iterateOverArray(value.children,
                  [i \in 1..Len(value.children.a) |->
                     IndexCallback(value.children.a[i])])
           node == [NoNode EXCEPT !.meshIndex = OptOf(value.mesh),
                                  !.children = r.out]
       IN  IF ChildrenFailed(r) THEN Reject(NoNode)
           ELSE LET withMatrix == IF value.matrix.t = "arr"
                                  THEN MatrixLoop(node, value.matrix.a)
                                  ELSE node
                IN  Accept([withMatrix EXCEPT !.name = NameOf(value.name)])

\* ------------------------------------------------------------------ scenes
NoScene == [nodeIndices |-> <<>>, name |-> NoString]

\* the callback of parseScenes. When it rejects because of its nodes it has
\* set errorCode to InvalidGltf itself.
SceneCallback(value) ==
  IF ~value.obj THEN Reject(NoScene)
  ELSE LET r == iterateOverArray(value.nodes,
                  [i \in 1..Len(value.nodes.a) |-> IndexCallback(value.nodes.a[i])])
       IN  IF ~r.found /\ r.error # "None" THEN Reject(NoScene)
           ELSE Accept([nodeIndices |-> r.out, name |-> NameOf(value.name)])

\* ------------------------------------------------------------------ input documents
\* The array elements the input documents are built from, one set per
\* top-level array.
BufferElems ==
  { [obj |-> TRUE, byteLength |-> U(10), uri |-> S(1), name |-> Absent],
    [obj |-> TRUE, byteLength |-> U(4), uri |-> S(2), name |-> S(11)],
    [obj |-> TRUE, byteLength |-> U(10), uri |-> Absent, name |-> Absent],
    [obj |-> TRUE, byteLength |-> Absent, uri |-> S(1), name |-> Absent],
    [obj |-> TRUE, byteLength |-> U(10), uri |-> S(4), name |-> Absent],
    [obj |-> TRUE, byteLength |-> U(10), uri |-> S(3), name |-> Absent],
    [obj |-> TRUE, byteLength |-> U(10), uri |-> S(12), name |-> Absent],
    [obj |-> TRUE, byteLength |-> U(10), uri |-> S(13), name |-> Absent],
    [obj |-> TRUE, byteLength |-> U(4), uri |-> S(5), name |-> Absent],
    [obj |-> FALSE, byteLength |-> Absent, uri |-> Absent, name |-> Absent] }

BV(buffer, byteLength, byteOffset, byteStride, target) ==
  [obj |-> TRUE, buffer |-> buffer, byteLength |-> byteLength,
   byteOffset |-> byteOffset, byteStride |-> byteStride, target |-> target,
   name |-> Absent]

BufferViewElems ==
  { BV(U(0), U(8), Absent, Absent, Absent),
    BV(U(1), U(16), U(4), U(2), U(34962)),
    BV(U(0), U(8), J("str"), J("dbl"), J("null")),
    BV(Absent, U(8), Absent, Absent, Absent),
    BV(U(0), J("str"), U(4), Absent, Absent),
    [BV(Absent, Absent, Absent, Absent, Absent) EXCEPT !.obj = FALSE] }

AC(componentType, type, count, bufferView) ==
  [obj |-> TRUE, componentType |-> componentType, type |-> type,
   count |-> count, bufferView |-> bufferView, byteOffset |-> Absent,
   normalized |-> Absent, name |-> Absent]

AccessorElems ==
  { AC(U(5126), S(10), U(3), U(0)),
    [AC(U(5123), S(9), U(6), Absent) EXCEPT !.byteOffset = U(12),
                                            !.normalized = [t |-> "bool", n |-> 1]],
    AC(U(5130), S(9), U(1), U(0)),
    [AC(U(5126), S(9), U(1), J("str")) EXCEPT !.byteOffset = J("dbl"),
                                              !.normalized = J("str")],
    AC(U(1234), S(9), U(1), U(0)),
    AC(U(5126), S(9), Absent, U(0)),
    AC(J("str"), S(9), U(1), U(0)),
    [AC(Absent, Absent, Absent, Absent) EXCEPT !.obj = FALSE] }

IM(uri, bufferView, mimeType) ==
  [obj |-> TRUE, uri |-> uri, bufferView |-> bufferView, mimeType |-> mimeType,
   name |-> Absent]

ImageElems ==
  { IM(S(2), Absent, Absent),
    IM(S(1), Absent, S(6)),
    IM(Absent, U(3), S(6)),
    IM(Absent, U(3), Absent),
    IM(S(2), U(3), S(6)),
    IM(S(2), J("str"), Absent),
    IM(J("dbl"), U(3), S(6)),
    IM(Absent, Absent, Absent),
    IM(S(4), Absent, Absent),
    [IM(Absent, Absent, Absent) EXCEPT !.obj = FALSE] }

Nested(source) == [t |-> "obj", source |-> source]
NotAnObject == [t |-> "other", source |-> Absent]
Ext(basisu, dds) == [t |-> "obj", basisu |-> basisu, dds |-> dds]

TX(source, extensions) ==
  [obj |-> TRUE, source |-> source, sampler |-> Absent, name |-> Absent,
   extensions |-> extensions]

TextureElems ==
  { [TX(U(0), NoExtensions) EXCEPT !.sampler = U(1)],
    TX(Absent, NoExtensions),
    TX(U(0), Ext(NoNested, NoNested)),
    TX(Absent, Ext(NoNested, NoNested)),
    TX(Absent, Ext(Nested(U(1)), Nested(U(2)))),
    TX(U(0), Ext(Nested(U(1)), Nested(U(2)))),
    TX(U(0), Ext(NotAnObject, Nested(U(2)))),
    TX(U(0), Ext(Nested(Absent), Nested(U(2)))),
    TX(U(0), [NoExtensions EXCEPT !.t = "other"]),
    TX(U(SizeMax), NoExtensions),
    [TX(Absent, NoExtensions) EXCEPT !.obj = FALSE] }

PR(attributes, mode) ==
  [obj |-> TRUE, attributes |-> attributes, mode |-> mode, indices |-> Absent,
   material |-> Absent]

Attrs(a) == [t |-> "obj", a |-> a]

GoodPrimitive == PR(Attrs(<<U(0), U(1)>>), Absent)
OtherPrimitive ==
  [PR(Attrs(<<U(2)>>), U(1)) EXCEPT !.indices = U(3), !.material = U(0)]

WrongTypedPrimitive ==
  [PR(Attrs(<<U(0)>>), J("str")) EXCEPT !.indices = J("dbl"), !.material = J("null")]

ME(primitives) == [obj |-> TRUE, primitives |-> primitives, name |-> Absent]

MeshElems ==
  { ME(Arr(<<GoodPrimitive, OtherPrimitive>>)),
    ME(Arr(<<OtherPrimitive, WrongTypedPrimitive>>)),
    ME(AbsentArr),
    ME(OtherArr),
    ME(Arr(<<GoodPrimitive, PR(NoAttributes, Absent)>>)),
    ME(Arr(<<PR(Attrs(<<U(0), J("str")>>), Absent)>>)),
    ME(Arr(<<[GoodPrimitive EXCEPT !.obj = FALSE]>>)),
    [ME(AbsentArr) EXCEPT !.obj = FALSE] }

ND(mesh, children, matrix) ==
  [obj |-> TRUE, mesh |-> mesh, children |-> children, matrix |-> matrix,
   name |-> Absent]

\* matrix arrays: k numbers 1..k, optionally with a string at 0-based index at
Numbers(k) == [i \in 1..k |-> U(i)]
WithString(a, at) == [a EXCEPT ![at + 1] = J("str")]

NodeElems ==
  { ND(U(0), AbsentArr, AbsentArr),
    ND(Absent, Arr(<<U(1), U(2)>>), AbsentArr),
    ND(Absent, Arr(<<U(2), U(1)>>), AbsentArr),
    ND(Absent, Arr(<<U(1), J("str"), U(2)>>), AbsentArr),
    ND(Absent, AbsentArr, Arr(Numbers(MatrixSize))),
    ND(Absent, AbsentArr, Arr(WithString(Numbers(MatrixSize), 10))),
    ND(Absent, AbsentArr, Arr(Numbers(2))),
    ND(Absent, AbsentArr, Arr(<<>>)),
    ND(Absent, AbsentArr, Arr(Numbers(MatrixSize + 1))),
    [ND(Absent, AbsentArr, AbsentArr) EXCEPT !.obj = FALSE] }

SC(nodes) == [obj |-> TRUE, name |-> Absent, nodes |-> nodes]

SceneElems ==
  { SC(AbsentArr),
    [SC(Arr(<<U(0), U(1)>>)) EXCEPT !.name = S(11)],
    SC(Arr(<<U(1), U(0)>>)),
    SC(Arr(<<U(0), J("dbl")>>)),
    SC(OtherArr),
    [SC(AbsentArr) EXCEPT !.obj = FALSE] }

\* The values a document can hold under a top-level array key: nothing, a
\* value that is not an array, or an array of at most MaxLen elements.
SeqsUpTo(E, n) == UNION {[1..k -> E] : k \in 0..n}
ArrayValues(E, n) == {AbsentArr, OtherArr} \cup {Arr(a) : a \in SeqsUpTo(E, n)}

Kinds == {"buffers", "bufferViews", "accessors", "images", "textures",
          "meshes", "nodes", "scenes"}

ElemsOf(k) ==
  CASE k = "buffers" -> BufferElems
    [] k = "bufferViews" -> BufferViewElems
    [] k = "accessors" -> AccessorElems
    [] k = "images" -> ImageElems
    [] k = "textures" -> TextureElems
    [] k = "meshes" -> MeshElems
    [] k = "nodes" -> NodeElems
    [] k = "scenes" -> SceneElems

\* The "asset" member: t says whether it is an object, version is what is
\* found under its "version" key.
GoodAsset == [t |-> "obj", version |-> S(8)]
AssetValues ==
  { GoodAsset,
    [t |-> "absent", version |-> Absent],
    [t |-> "other", version |-> Absent],
    [t |-> "obj", version |-> Absent],
    [t |-> "obj", version |-> U(2)] }

\* json: whether the bytes are JSON at all ("invalid"), JSON whose root is
\* not an object ("nonobject"), or JSON with an object at the root.
EmptyDoc ==
  [json |-> "object", asset |-> GoodAsset, scene |-> Absent,
   buffers |-> AbsentArr, bufferViews |-> AbsentArr, accessors |-> AbsentArr,
   images |-> AbsentArr, textures |-> AbsentArr, meshes |-> AbsentArr,
   nodes |-> AbsentArr, scenes |-> AbsentArr]

LoadDocs ==
  {[EmptyDoc EXCEPT !.json = j] : j \in {"invalid", "nonobject"}}
  \cup {[EmptyDoc EXCEPT !.asset = a] : a \in AssetValues}

ArrayDocsOf(k) ==
  {[EmptyDoc EXCEPT ![k] = v] : v \in ArrayValues(ElemsOf(k), MaxLen)}

ArrayDocs == UNION {ArrayDocsOf(k) : k \in Kinds}

\* documents with two top-level arrays and a default scene
PairDocs ==
  {[EmptyDoc EXCEPT !.buffers = b, !.scenes = s, !.scene = d] :
     b \in ArrayValues(BufferElems, 1), s \in ArrayValues(SceneElems, 1),
     d \in {Absent, U(0), J("str")}}

Docs == LoadDocs \cup ArrayDocs \cup PairDocs

OptionSets ==
  { {}, {"DontUseSIMD"}, {"AllowDouble"}, {"DontRequireValidAssetMember"},
    {"LoadKTXExtension"}, {"LoadDDSExtension"},
    {"LoadKTXExtension", "LoadDDSExtension"}, Options }

\* The option sets a document with the top-level array k is loaded with: the
\* flags that the parser of k reads, each on and off.
OptionSetsOf(k) ==
  CASE k \in {"buffers", "images"} -> {{}, {"DontUseSIMD"}}
    [] k = "accessors" -> {{}, {"AllowDouble"}}
    [] k = "textures" -> {{}, {"LoadKTXExtension"}, {"LoadDDSExtension"},
                          {"LoadKTXExtension", "LoadDDSExtension"}}
    [] OTHER -> {{}}

\* the directories a caller passes: "assets" exists, "missing" does not, ""
\* is the empty path
is_directory(directory) == directory = "assets"

\* ------------------------------------------------------------------ state
VARIABLES
  parserError,   \* Parser::errorCode
  doc,           \* what data->root of the handle reads: the document held by
                 \* the Parser's tokenizer (jsonParser)
  loaded,        \* the document the handle was created from
  directory,     \* the directory of the last loadGLTF call; glTF::directory
  options,       \* the options of the last loadGLTF call; glTF::options
  live,          \* the last loadGLTF call returned a handle
  errorCode,     \* glTF::errorCode
  parsedAsset,   \* the Asset behind glTF::parsedAsset
  held,          \* glTF::parsedAsset is not null
  calls,         \* entity-parser calls made on the handle
  last           \* the last call: its name, the array it ran over, what it
                 \* returned, how many elements its callback visited and how
                 \* long the collection was before

vars == <<parserError, doc, loaded, directory, options, live, errorCode,
          parsedAsset, held, calls, last>>

\* std::make_unique<Asset>()
EmptyAsset ==
  [buffers |-> <<>>, bufferViews |-> <<>>, accessors |-> <<>>, images |-> <<>>,
   textures |-> <<>>, meshes |-> <<>>, nodes |-> <<>>, scenes |-> <<>>,
   defaultScene |-> Unset]

Call(op, kind, ret, visited, before) ==
  [op |-> op, kind |-> kind, ret |-> ret, visited |-> visited, before |-> before]

Init ==
  /\ parserError = "None"
  /\ doc = EmptyDoc
  /\ loaded = EmptyDoc
  /\ directory = "missing"
  /\ options = {}
  /\ live = FALSE
  /\ errorCode = "None"
  /\ parsedAsset = EmptyAsset
  /\ held = FALSE
  /\ calls = 0
  /\ last = Call("none", "none", "None", 0, 0)

\* ------------------------------------------------------------------ Parser
\* glTF::checkAssetField
checkAssetField(d) == d.asset.t = "obj" /\ get_string(d.asset.version)

\* parser->parse(...).get(data->root): root is a dom::object
ParseSucceeds(d) == d.json = "object"

\* LoadResult with the asset check made whatever the options say
LoadResultNoOptOut(d, dir, opts) ==
  IF ~is_directory(dir) THEN "InvalidPath"
  ELSE IF ~ParseSucceeds(d) THEN "InvalidJson"
  ELSE IF ~checkAssetField(d) THEN "InvalidOrMissingAssetField"
  ELSE "None"

\* The code Parser::loadGLTF(JsonData*, fs::path, Options) leaves in
\* Parser::errorCode; it returns a handle exactly when that is None.
LoadResult(d, dir, opts) ==
  IF ~is_directory(dir) THEN "InvalidPath"
  ELSE IF ~ParseSucceeds(d) THEN "InvalidJson"
  ELSE IF ~hasBit(opts, "DontRequireValidAssetMember") /\ ~checkAssetField(d)
       THEN "InvalidOrMissingAssetField"
  ELSE "None"

\* The caller keeps the result of its latest load only: a new handle starts
\* with an empty Asset, a failed load leaves the caller without a handle.
Load(op, d, dir, opts, result) ==
  /\ parserError' = result
  /\ doc' = d
  /\ loaded' = d
  /\ directory' = dir
  /\ options' = opts
  /\ live' = (result = "None")
  /\ errorCode' = "None"
  /\ parsedAsset' = EmptyAsset
  /\ held' = (result = "None")
  /\ calls' = 0
  /\ last' = Call(op, "none", result, 0, 0)

\* What a caller hands to loadGLTF. A directory that does not exist is paired
\* with the documents of LoadDocs only: the directory check comes first and
\* does not look at the document.
Inputs ==
  {<<d, "assets", opts>> : d \in LoadDocs, opts \in OptionSets}
  \cup UNION {{<<d, "assets", opts>> : d \in ArrayDocsOf(k), opts \in OptionSetsOf(k)}
              : k \in Kinds}
  \cup {<<d, "assets", {}>> : d \in PairDocs}
  \cup {<<d, dir, opts>> : d \in LoadDocs, dir \in {"missing", ""},
                           opts \in OptionSets}

\* The model follows one handle: the caller loads while it has none (at the
\* start and after a failed load), and it may load once more on the same
\* Parser while it keeps its handle.
CanLoad == ~live

\* The first load is given any of Inputs; a load that follows a failed one is
\* given a document of LoadDocs.
RetryInputs ==
  {<<d, dir, opts>> : d \in LoadDocs, dir \in {"assets", "missing", ""},
                      opts \in OptionSets}

InputsNow == IF last.op = "none" THEN Inputs ELSE RetryInputs

\* A load on the Parser whose earlier handle the caller keeps; the handle this
\* load returns is not followed. data->root of the kept handle is a view into
\* the document owned by jsonParser, which parser->parse rewrites: after a
\* parse that gave an object the view reads the new document; after a parse
\* that failed, or gave a root that is no object, what it reads is
\* undetermined (here: the old document or a document without any key). A
\* load that stops at InvalidPath does not parse.
RootAfterParse(d) ==
  IF ParseSucceeds(d) THEN {d} ELSE {doc, EmptyDoc}

LoadAgain(op, d, dir, opts, result) ==
  /\ parserError' = result
  /\ doc' \in IF result = "InvalidPath" THEN {doc} ELSE RootAfterParse(d)
  /\ last' = Call(op, "none", result, 0, 0)
  /\ UNCHANGED <<loaded, directory, options, live, errorCode, parsedAsset,
                 held, calls>>

\* The second loads that are followed: made before the first parser call, on
\* a handle of a document of PairDocs, with one of these inputs.
SecondDoc ==
  [EmptyDoc EXCEPT !.buffers = Arr(<<[obj |-> TRUE, byteLength |-> U(4),
                                      uri |-> S(2), name |-> S(11)]>>),
                   !.scene = U(0)]

AgainInputs ==
  {<<d, "assets", {}>> : d \in {SecondDoc,
                                [SecondDoc EXCEPT !.json = "invalid"],
                                [SecondDoc EXCEPT !.json = "nonobject"],
                                [SecondDoc EXCEPT !.asset = [t |-> "absent", version |-> Absent]]}}
  \cup {<<SecondDoc, dir, {}>> : dir \in {"missing", ""}}

CanLoadAgain == live /\ calls = 0 /\ doc = loaded /\ loaded \in PairDocs
                     /\ last.op \in {"loadGLTF", "loadGLTFString"}

\* Parser::loadGLTF(JsonData*, fs::path, Options)
loadGLTF ==
  \/ /\ CanLoad
     /\ \E in \in InputsNow :
          /\ in[2] # ""
          /\ Load("loadGLTF", in[1], in[2], in[3], LoadResult(in[1], in[2], in[3]))
  \/ /\ CanLoadAgain
     /\ \E in \in AgainInputs :
          /\ in[2] # ""
          /\ LoadAgain("loadGLTF again", in[1], in[2], in[3],
                       LoadResult(in[1], in[2], in[3]))

\* Parser::loadGLTF(JsonData*, std::string_view, Options)
loadGLTFString ==
  \/ /\ CanLoad
     /\ \E in \in InputsNow :
          Load("loadGLTFString", in[1], in[2], in[3],
               IF in[2] = "" \/ ~is_directory(in[2]) THEN "InvalidPath"
               ELSE LoadResult(in[1], in[2], in[3]))
  \/ /\ CanLoadAgain
     /\ \E in \in AgainInputs :
          LoadAgain("loadGLTFString again", in[1], in[2], in[3],
                    IF in[2] = "" \/ ~is_directory(in[2]) THEN "InvalidPath"
                    ELSE LoadResult(in[1], in[2], in[3]))

\* ------------------------------------------------------------------ glTF
\* The tail shared by the entity parsers: r is what iterateOverArray
\* returned for the array named kind, asset the Asset before the callbacks
\* appended r.out.
CanParse == live /\ held /\ calls < MaxCalls

\* The parser calls that are followed: the parser of every key the document
\* has, and all eight parsers on a document whose arrays have at most one
\* element.
SmallDoc(d) == \A k \in Kinds : Len(d[k].a) <= 1

CanParseKind(kind) == CanParse /\ (doc[kind].t # "absent" \/ SmallDoc(doc))

\* ErrorAfter with a parser that succeeded clearing the code
ErrorAfterReset(r) ==
  IF ~r.found /\ r.error # "None" THEN r.error ELSE "None"

ErrorAfter(r) ==
  IF ~r.found /\ r.error # "None" THEN r.error ELSE errorCode

\* Finish for parsers that return at once when an error is already recorded
FinishSkipsAfterError(kind, asset, r) ==
  /\ parsedAsset' = IF errorCode # "None" THEN parsedAsset
                    ELSE [asset EXCEPT ![kind] = @ \o r.out]
  /\ errorCode' = IF errorCode # "None" THEN errorCode ELSE ErrorAfter(r)
  /\ last' = IF errorCode # "None"
             THEN Call("parse", kind, errorCode, 0, Len(parsedAsset[kind]))
             ELSE Call("parse", kind, ErrorAfter(r), r.visited, Len(asset[kind]))
  /\ calls' = calls + 1
  /\ UNCHANGED <<parserError, doc, loaded, directory, options, live, held>>

Finish(kind, asset, r) ==
  /\ parsedAsset' = [asset EXCEPT ![kind] = @ \o r.out]
  /\ errorCode' = ErrorAfter(r)
  /\ last' = Call("parse", kind, ErrorAfter(r), r.visited, Len(asset[kind]))
  /\ calls' = calls + 1
  /\ UNCHANGED <<parserError, doc, loaded, directory, options, live, held>>

parseBuffers ==
  /\ CanParseKind("buffers")
  /\ Finish("buffers", parsedAsset,
       iterateOverArray(doc.buffers,
         [i \in 1..Len(doc.buffers.a) |-> BufferCallback(doc.buffers.a[i], directory, options)]))

parseBufferViews ==
  /\ CanParseKind("bufferViews")
  /\ Finish("bufferViews", parsedAsset,
       iterateOverArray(doc.bufferViews,
         [i \in 1..Len(doc.bufferViews.a) |-> BufferViewCallback(doc.bufferViews.a[i])]))

parseAccessors ==
  /\ CanParseKind("accessors")
  /\ Finish("accessors", parsedAsset,
       iterateOverArray(doc.accessors,
         [i \in 1..Len(doc.accessors.a) |-> AccessorCallback(doc.accessors.a[i], options)]))

parseImages ==
  /\ CanParseKind("images")
  /\ Finish("images", parsedAsset,
       iterateOverArray(doc.images,
         [i \in 1..Len(doc.images.a) |-> ImageCallback(doc.images.a[i], directory, options)]))

parseTextures ==
  /\ CanParseKind("textures")
  /\ Finish("textures", parsedAsset,
       iterateOverArray(doc.textures,
         [i \in 1..Len(doc.textures.a) |-> TextureCallback(doc.textures.a[i], options)]))

parseMeshes ==
  /\ CanParseKind("meshes")
  /\ Finish("meshes", parsedAsset, iterateOverArray(doc.meshes,
         [i \in 1..Len(doc.meshes.a) |-> MeshCallback(doc.meshes.a[i])]))

parseNodes ==
  /\ CanParseKind("nodes")
  /\ Finish("nodes", parsedAsset, iterateOverArray(doc.nodes,
         [i \in 1..Len(doc.nodes.a) |-> NodeCallback(doc.nodes.a[i])]))

parseScenes ==
  /\ CanParseKind("scenes")
  /\ Finish("scenes",
       IF get_uint64(doc.scene)
       THEN [parsedAsset EXCEPT !.defaultScene = Opt(doc.scene.n)]
       ELSE parsedAsset,
       iterateOverArray(doc.scenes,
         [i \in 1..Len(doc.scenes.a) |-> SceneCallback(doc.scenes.a[i])]))

\* Retrieved without the test of errorCode
RetrievedUnchecked == IF held THEN "asset" ELSE "null"

\* what the callback of the parser of kind returns on the element value
CallbackOf(kind, value) ==
  CASE kind = "buffers" -> BufferCallback(value, directory, options)
    [] kind = "bufferViews" -> BufferViewCallback(value)
    [] kind = "accessors" -> AccessorCallback(value, options)
    [] kind = "images" -> ImageCallback(value, directory, options)
    [] kind = "textures" -> TextureCallback(value, options)
    [] kind = "meshes" -> MeshCallback(value)
    [] kind = "nodes" -> NodeCallback(value)
    [] kind = "scenes" -> SceneCallback(value)

\* What a retrieval hands out: null when an error is recorded, otherwise
\* whatever parsedAsset holds.
Retrieved == IF errorCode # "None" THEN "null"
             ELSE IF held THEN "asset" ELSE "null"

\* getParsedAsset handing out the Asset without giving it up
getParsedAssetKeeps ==
  /\ live
  /\ last' = Call("getParsedAsset", "none", Retrieved, 0, 0)
  /\ UNCHANGED <<parserError, doc, loaded, directory, options, live, errorCode,
                 parsedAsset, held, calls>>

\* glTF::getParsedAsset: std::move empties parsedAsset
getParsedAsset ==
  /\ live
  /\ last' = Call("getParsedAsset", "none", Retrieved, 0, 0)
  /\ held' = IF errorCode # "None" THEN held ELSE FALSE
  /\ UNCHANGED <<parserError, doc, loaded, directory, options, live, errorCode,
                 parsedAsset, calls>>

\* glTF::getParsedAssetPointer
getParsedAssetPointer ==
  /\ live
  /\ last' = Call("getParsedAssetPointer", "none", Retrieved, 0, 0)
  /\ UNCHANGED <<parserError, doc, loaded, directory, options, live, errorCode,
                 parsedAsset, held, calls>>

Next ==
  \/ loadGLTF
  \/ loadGLTFString
  \/ parseBuffers
  \/ parseBufferViews
  \/ parseAccessors
  \/ parseImages
  \/ parseTextures
  \/ parseMeshes
  \/ parseNodes
  \/ parseScenes
  \/ getParsedAsset
  \/ getParsedAssetPointer

Spec == Init /\ [][Next]_vars

\* ================================================================== claims
ParseJust(kind) == last.op = "parse" /\ last.kind = kind
LoadJust == last.op \in {"loadGLTF", "loadGLTFString"}

\* C1: a retrieval made while the handle's error code is not None returns
\* null, whatever entity parsers ran before; an Asset is returned only while
\* the error code is None.
C1_NoAssetOnError ==
  last.op \in {"getParsedAsset", "getParsedAssetPointer"} =>
    /\ errorCode # "None" => last.ret = "null"
    /\ last.ret = "asset" => errorCode = "None"

\* a retrieval refused after a parser failed with part of its array appended
C1_Witness ==
  /\ last.op = "getParsedAsset"
  /\ last.ret = "null"
  /\ errorCode = "InvalidGltf"
  /\ held
  /\ \E k \in Kinds : Len(parsedAsset[k]) > 0

\* C2 as stated: loadGLTF returns a handle iff the directory exists, the
\* bytes parse as JSON and (DontRequireValidAssetMember is set or the root
\* has an asset object with a string version); otherwise getError is the
\* first failing check in the order InvalidPath, InvalidJson,
\* InvalidOrMissingAssetField; after a successful load getError is None.
BytesAreJson == doc.json # "invalid"
AssetMemberOk ==
  doc.json = "object" /\ doc.asset.t = "obj" /\ doc.asset.version.t = "str"
AssetCheckPasses == hasBit(options, "DontRequireValidAssetMember") \/ AssetMemberOk

C2_Original ==
  LoadJust =>
    /\ live <=> (directory = "assets" /\ BytesAreJson /\ AssetCheckPasses)
    /\ parserError = IF directory # "assets" THEN "InvalidPath"
                     ELSE IF ~BytesAreJson THEN "InvalidJson"
                     ELSE IF ~AssetCheckPasses THEN "InvalidOrMissingAssetField"
                     ELSE "None"

\* C2 amended: the second condition is that the bytes parse as JSON with an
\* object at the root; InvalidJson is reported for any other root as well.
RootIsObject == doc.json = "object"

C2_LoadOutcome ==
  /\ LoadJust =>
       /\ live <=> (directory = "assets" /\ RootIsObject /\ AssetCheckPasses)
       /\ parserError = IF directory # "assets" THEN "InvalidPath"
                        ELSE IF ~RootIsObject THEN "InvalidJson"
                        ELSE IF ~AssetCheckPasses THEN "InvalidOrMissingAssetField"
                        ELSE "None"
  /\ (LoadJust /\ live) => parserError = "None"

\* a load that succeeds only because the asset check is switched off
C2_Witness ==
  /\ LoadJust
  /\ live
  /\ ~AssetMemberOk
  /\ parserError = "None"

\* C3: a parser whose key is absent from the root, or holds something that
\* is not an array, leaves its collection and the error code as they were;
\* on a fresh handle that is: empty, and None.
ParseStep == last'.op = "parse" /\ calls' = calls + 1

C3_Step ==
  (ParseStep /\ doc[last'.kind].t # "arr") =>
     /\ parsedAsset'[last'.kind] = parsedAsset[last'.kind]
     /\ errorCode' = errorCode
     /\ last'.ret = errorCode
     /\ calls = 0 => (parsedAsset'[last'.kind] = <<>> /\ errorCode' = "None")

C3_AbsentArrayIsNoError == [][C3_Step]_vars

\* parseScenes over a root whose "scenes" is not an array, after parseBuffers
\* failed
C3_Witness ==
  /\ ParseJust("scenes")
  /\ doc.scenes.t = "other"
  /\ calls = 2
  /\ errorCode = "InvalidGltf"
  /\ parsedAsset.scenes = <<>>

\* what the last parser call appended to its collection
Appended == Len(parsedAsset[last.kind]) - last.before
Elements(kind) == doc[kind].a
ParsedArray(kind) == ParseJust(kind) /\ doc[kind].t = "arr"

\* An element that is not an object, or lacks a required field, or has it
\* with the wrong type.
StructurallyInvalid(kind, e) ==
  \/ ~e.obj
  \/ kind = "buffers" /\ e.byteLength.t # "uint"
  \/ kind = "bufferViews" /\ (e.buffer.t # "uint" \/ e.byteLength.t # "uint")
  \/ kind = "accessors" /\ (e.componentType.t # "uint" \/ e.type.t # "str"
                                \/ e.count.t # "uint")

\* C4: when an element of a present top-level array fails structural
\* validation, the parser sets and returns InvalidGltf and its callback sees
\* no element after that one.
C4_InvalidElementAborts ==
  \A k \in Kinds : ParsedArray(k) =>
    \A i \in 1..Len(Elements(k)) : StructurallyInvalid(k, Elements(k)[i]) =>
      /\ errorCode = "InvalidGltf"
      /\ last.ret = "InvalidGltf"
      /\ last.visited <= i
      /\ Appended < i

\* parseBufferViews stopping at an invalid first element with a valid
\* second one behind it
C4_Witness ==
  /\ ParsedArray("bufferViews")
  /\ Len(doc.bufferViews.a) = 2
  /\ StructurallyInvalid("bufferViews", doc.bufferViews.a[1])
  /\ BufferViewCallback(doc.bufferViews.a[2]).ok
  /\ last.visited = 1
  /\ parsedAsset.bufferViews = <<>>
  /\ errorCode = "InvalidGltf"

\* C5: one call of a parser on a fresh handle over an array whose elements
\* its callback all accepts leaves as many entities as the array has
\* elements, the i-th built from the i-th element; children and scene node
\* indices keep the order of their arrays.
AllUint(av) == av.t = "arr" /\ \A j \in 1..Len(av.a) : av.a[j].t = "uint"
Values(av) == [j \in 1..Len(av.a) |-> av.a[j].n]

C5_DocumentOrder ==
  \A k \in Kinds :
    (ParsedArray(k) /\ calls = 1
       /\ \A i \in 1..Len(Elements(k)) : CallbackOf(k, Elements(k)[i]).ok) =>
      /\ Len(parsedAsset[k]) = Len(Elements(k))
      /\ \A i \in 1..Len(Elements(k)) :
           /\ parsedAsset[k][i] = CallbackOf(k, Elements(k)[i]).ent
           /\ (k = "nodes" /\ AllUint(Elements(k)[i].children)) =>
                parsedAsset[k][i].children = Values(Elements(k)[i].children)
           /\ (k = "scenes" /\ AllUint(Elements(k)[i].nodes)) =>
                parsedAsset[k][i].nodeIndices = Values(Elements(k)[i].nodes)

\* two scenes with the node lists 0,1 and 1,0
C5_Witness ==
  /\ ParsedArray("scenes")
  /\ calls = 1
  /\ errorCode = "None"
  /\ Len(doc.scenes.a) = 2
  /\ Len(parsedAsset.scenes) = 2
  /\ parsedAsset.scenes[1].nodeIndices = <<0, 1>>
  /\ parsedAsset.scenes[2].nodeIndices = <<1, 0>>

\* C6: no Buffer and no Image in the Asset has the location None; a buffer
\* object with an unsigned byteLength and no string uri is not appended and
\* parseBuffers fails with InvalidGltf.
BufferWithoutUri(e) == e.obj /\ e.byteLength.t = "uint" /\ e.uri.t # "str"

C6_LocationResolved ==
  /\ \A i \in 1..Len(parsedAsset.buffers) : parsedAsset.buffers[i].location # "None"
  /\ \A i \in 1..Len(parsedAsset.images) : parsedAsset.images[i].location # "None"
  /\ ParsedArray("buffers") =>
       \A i \in 1..Len(doc.buffers.a) : BufferWithoutUri(doc.buffers.a[i]) =>
         /\ last.ret = "InvalidGltf"
         /\ errorCode = "InvalidGltf"
         /\ Appended < i

\* a buffer without uri behind a buffer that was appended
C6_Witness ==
  /\ ParsedArray("buffers")
  /\ Len(doc.buffers.a) = 2
  /\ BufferWithoutUri(doc.buffers.a[2])
  /\ Len(parsedAsset.buffers) = 1
  /\ parsedAsset.buffers[1].location = "VectorWithMime"
  /\ errorCode = "InvalidGltf"

\* C7: an image object with both a uri and a bufferView field, or with
\* neither, is not appended and parseImages fails with InvalidGltf.
BothOrNeither(e) == e.obj /\ ((e.uri.t # "absent") <=> (e.bufferView.t # "absent"))

C7_UriXorBufferView ==
  ParsedArray("images") =>
    \A i \in 1..Len(doc.images.a) : BothOrNeither(doc.images.a[i]) =>
      /\ last.ret = "InvalidGltf"
      /\ errorCode = "InvalidGltf"
      /\ Appended < i

\* an image with a string uri, an unsigned bufferView and a mimeType, behind
\* an image that was appended
C7_Witness ==
  /\ ParsedArray("images")
  /\ Len(doc.images.a) = 2
  /\ doc.images.a[2].uri.t = "str"
  /\ doc.images.a[2].bufferView.t = "uint"
  /\ doc.images.a[2].mimeType.t = "str"
  /\ Len(parsedAsset.images) = 1
  /\ errorCode = "InvalidGltf"

\* C8 as stated: an image with an unsigned bufferView, a string mimeType and
\* no uri is accepted and yields an Image with that bufferView index and the
\* mapped MIME type; an image with bufferView but no mimeType is rejected.
BufferViewImage(e) ==
  e.obj /\ e.uri.t = "absent" /\ e.bufferView.t = "uint" /\ e.mimeType.t = "str"

C8_BufferViewImageAccepted ==
  /\ (ParsedArray("images") /\ calls = 1
        /\ \A i \in 1..Len(doc.images.a) : BufferViewImage(doc.images.a[i])) =>
       /\ errorCode = "None"
       /\ Len(parsedAsset.images) = Len(doc.images.a)
       /\ \A i \in 1..Len(doc.images.a) :
            /\ parsedAsset.images[i].data.bufferViewIndex = doc.images.a[i].bufferView.n
            /\ parsedAsset.images[i].data.mimeType =
                 getMimeTypeFromString(StrTab[doc.images.a[i].mimeType.n])
  /\ ParsedArray("images") =>
       \A i \in 1..Len(doc.images.a) :
         (doc.images.a[i].bufferView.t = "uint" /\ doc.images.a[i].mimeType.t # "str")
           => (errorCode = "InvalidGltf" /\ Appended < i)

\* C9: with both extension options set, a texture whose extensions hold a
\* KHR_texture_basisu and an MSFT_texture_dds object with different numeric
\* sources is accepted with the KHR_texture_basisu source as imageIndex.
BothExtensions(e) ==
  /\ e.obj
  /\ e.extensions.t = "obj"
  /\ e.extensions.basisu.t = "obj" /\ e.extensions.basisu.source.t = "uint"
  /\ e.extensions.dds.t = "obj" /\ e.extensions.dds.source.t = "uint"
  /\ e.extensions.basisu.source.n # e.extensions.dds.source.n

C9_BasisuWins ==
  (ParsedArray("textures") /\ calls = 1
     /\ {"LoadKTXExtension", "LoadDDSExtension"} \subseteq options
     /\ \A i \in 1..Len(doc.textures.a) : BothExtensions(doc.textures.a[i])) =>
    /\ errorCode = "None"
    /\ Len(parsedAsset.textures) = Len(doc.textures.a)
    /\ \A i \in 1..Len(doc.textures.a) :
         parsedAsset.textures[i].imageIndex = doc.textures.a[i].extensions.basisu.source.n

\* two such textures, one of them with a base source as well
C9_Witness ==
  /\ ParsedArray("textures")
  /\ calls = 1
  /\ options = {"LoadKTXExtension", "LoadDDSExtension"}
  /\ Len(doc.textures.a) = 2
  /\ \A i \in 1..2 : BothExtensions(doc.textures.a[i])
  /\ doc.textures.a[1].source.t = "uint"
  /\ doc.textures.a[2].source.t = "absent"
  /\ Len(parsedAsset.textures) = 2
  /\ parsedAsset.textures[1].imageIndex = 1
  /\ parsedAsset.textures[2].imageIndex = 1

\* C10 as stated: a texture with a numeric base source and an extensions
\* object in which no enabled extension supplies a source is accepted with
\* the base source as imageIndex.
SourceOnlyFromBase(e) ==
  /\ e.obj
  /\ e.source.t = "uint"
  /\ e.extensions.t = "obj"
  /\ hasBit(options, "LoadKTXExtension") => e.extensions.basisu.t = "absent"
  /\ hasBit(options, "LoadDDSExtension") => e.extensions.dds.t = "absent"

C10_BaseSourceAccepted ==
  (ParsedArray("textures") /\ calls = 1
     /\ \A i \in 1..Len(doc.textures.a) : SourceOnlyFromBase(doc.textures.a[i])) =>
    /\ errorCode = "None"
    /\ Len(parsedAsset.textures) = Len(doc.textures.a)
    /\ \A i \in 1..Len(doc.textures.a) :
         parsedAsset.textures[i].imageIndex = doc.textures.a[i].source.n

\* C11 as stated: a texture in whose extensions the value under an enabled
\* recognized key is present but not an object is rejected, whatever the
\* other extension and the base source provide.
MalformedExtension(e) ==
  /\ e.obj
  /\ e.extensions.t = "obj"
  /\ \/ hasBit(options, "LoadKTXExtension") /\ e.extensions.basisu.t = "other"
     \/ hasBit(options, "LoadDDSExtension") /\ e.extensions.dds.t = "other"

C11_MalformedExtensionRejected ==
  ParsedArray("textures") =>
    \A i \in 1..Len(doc.textures.a) : MalformedExtension(doc.textures.a[i]) =>
      /\ last.ret = "InvalidGltf"
      /\ errorCode = "InvalidGltf"
      /\ Appended < i

\* C12 as stated: every Texture in the Asset has an imageIndex other than
\* the sentinel; a texture without a numeric base source is rejected when it
\* has no extensions object, and when it has one in which no enabled
\* extension supplies a source.
Supplies(nested) == nested.t = "obj" /\ nested.source.t = "uint"

NoImageAnywhere(e) ==
  /\ e.obj
  /\ e.source.t # "uint"
  /\ \/ e.extensions.t # "obj"
     \/ /\ ~(hasBit(options, "LoadKTXExtension") /\ Supplies(e.extensions.basisu))
        /\ ~(hasBit(options, "LoadDDSExtension") /\ Supplies(e.extensions.dds))

C12_ImageIndexEstablished ==
  /\ \A i \in 1..Len(parsedAsset.textures) :
       parsedAsset.textures[i].imageIndex # SizeMax
  /\ ParsedArray("textures") =>
       \A i \in 1..Len(doc.textures.a) : NoImageAnywhere(doc.textures.a[i]) =>
         /\ last.ret = "InvalidGltf"
         /\ errorCode = "InvalidGltf"
         /\ Appended < i

\* The node the last parseNodes call built from the i-th element of "nodes",
\* for i up to the number of nodes it appended.
NodeOf(i) == parsedAsset.nodes[last.before + i]

\* C13 as stated: a node has hasMatrix = TRUE only if its "matrix" is an
\* array of exactly 16 entries that are all numbers; fewer (also none) or
\* more numeric entries do not give hasMatrix = TRUE.
SixteenNumbers(av) ==
  /\ av.t = "arr"
  /\ Len(av.a) = MatrixSize
  /\ \A j \in 1..Len(av.a) : get_double(av.a[j])

C13_HasMatrixNeedsSixteen ==
  ParsedArray("nodes") =>
    \A i \in 1..Appended : NodeOf(i).hasMatrix => SixteenNumbers(doc.nodes.a[i].matrix)

\* C14: a node whose "matrix" array holds an entry that is not a number is
\* appended with hasMatrix = FALSE, and parseNodes does not fail because of
\* it: over objects whose children are absent or all indices it returns None.
HasNonNumber(av) == av.t = "arr" /\ \E j \in 1..Len(av.a) : ~get_double(av.a[j])
PlainNode(e) == e.obj /\ (e.children.t = "arr" => AllUint(e.children))

C14_BadMatrixIsNotAnError ==
  ParsedArray("nodes") =>
    /\ \A i \in 1..Len(doc.nodes.a) :
         ((\A j \in 1..i : PlainNode(doc.nodes.a[j])) /\ HasNonNumber(doc.nodes.a[i].matrix)) =>
             /\ Appended >= i
             /\ ~NodeOf(i).hasMatrix
    /\ (calls = 1 /\ \A j \in 1..Len(doc.nodes.a) : PlainNode(doc.nodes.a[j])) =>
         /\ errorCode = "None"
         /\ last.ret = "None"
         /\ Appended = Len(doc.nodes.a)

\* a node with 16 matrix entries, a string at index 10, appended without an
\* error and without a matrix, followed by a node that has one
C14_Witness ==
  /\ ParsedArray("nodes")
  /\ Len(doc.nodes.a) = 2
  /\ doc.nodes.a[1].matrix = Arr(WithString(Numbers(MatrixSize), 10))
  /\ Appended = 2
  /\ ~NodeOf(1).hasMatrix
  /\ NodeOf(2).hasMatrix
  /\ errorCode = "None"
  /\ last.ret = "None"

\* The accessor the last parseAccessors call built from the i-th element of
\* "accessors", for i up to the number it appended.
AccessorOf(i) == parsedAsset.accessors[last.before + i]

CompleteAccessor(e) ==
  e.obj /\ e.componentType.t = "uint" /\ e.type.t = "str" /\ e.count.t = "uint"
IsDouble(e) ==
  e.obj /\ e.componentType.t = "uint" /\ getComponentType(e.componentType.n) = "Double"

\* C15: an accessor whose componentType is the double kind is rejected with
\* InvalidGltf unless AllowDouble is set, and accepted when it is set; the
\* callback treats every other accessor the same with and without AllowDouble.
C15_DoubleNeedsAllowDouble ==
  ParsedArray("accessors") =>
    \A i \in 1..Len(doc.accessors.a) :
      LET e == doc.accessors.a[i]
      IN  /\ (IsDouble(e) /\ CompleteAccessor(e) /\ Appended >= i - 1) =>
                IF hasBit(options, "AllowDouble")
                THEN Appended >= i /\ AccessorOf(i).componentType = "Double"
                ELSE /\ Appended = i - 1
                     /\ errorCode = "InvalidGltf"
                     /\ last.ret = "InvalidGltf"
          /\ ~IsDouble(e) =>
                AccessorCallback(e, options \cup {"AllowDouble"})
                  = AccessorCallback(e, options \ {"AllowDouble"})

\* a double accessor appended under AllowDouble behind a float accessor
C15_Witness ==
  /\ ParsedArray("accessors")
  /\ hasBit(options, "AllowDouble")
  /\ Len(doc.accessors.a) = 2
  /\ ~IsDouble(doc.accessors.a[1])
  /\ IsDouble(doc.accessors.a[2])
  /\ Appended = 2
  /\ AccessorOf(2).componentType = "Double"
  /\ errorCode = "None"

\* C16 as stated: every Accessor in the Asset has a recognized componentType,
\* double only under AllowDouble; an accessor whose componentType integer is
\* none of the recognized kinds is rejected.
Recognized(componentType) ==
  componentType \in {"Byte", "UnsignedByte", "Short", "UnsignedShort",
                     "UnsignedInt", "Float", "Double"}

C16_ComponentTypeRecognized ==
  /\ \A i \in 1..Len(parsedAsset.accessors) :
       /\ Recognized(parsedAsset.accessors[i].componentType)
       /\ parsedAsset.accessors[i].componentType = "Double" => hasBit(options, "AllowDouble")
  /\ ParsedArray("accessors") =>
       \A i \in 1..Len(doc.accessors.a) :
         LET e == doc.accessors.a[i]
         IN  (e.obj /\ e.componentType.t = "uint"
                /\ ~Recognized(getComponentType(e.componentType.n))) =>
               /\ last.ret = "InvalidGltf"
               /\ errorCode = "InvalidGltf"
               /\ Appended < i

\* What the last parser call built from the i-th element of its array, for
\* i up to the number it appended.
BufferViewOf(i) == parsedAsset.bufferViews[last.before + i]
MeshOf(i) == parsedAsset.meshes[last.before + i]

CompleteBufferView(e) == e.obj /\ e.buffer.t = "uint" /\ e.byteLength.t = "uint"
AcceptableAccessor(e) ==
  CompleteAccessor(e) /\ (IsDouble(e) => hasBit(options, "AllowDouble"))
CompletePrimitive(p) ==
  p.obj /\ p.attributes.t = "obj"
        /\ \A k \in 1..Len(p.attributes.a) : p.attributes.a[k].t = "uint"
CompleteMesh(e) ==
  e.obj /\ (e.primitives.t = "arr" =>
              \A k \in 1..Len(e.primitives.a) : CompletePrimitive(e.primitives.a[k]))

\* C17: an optional field that is absent or not of its JSON type never makes
\* an element fail and takes its default: bufferView byteOffset 0, byteStride
\* and target unset; accessor byteOffset 0, normalized false, bufferViewIndex
\* unset; primitive mode 4, indices and material unset.
C17_BufferViewDefaults ==
  ParsedArray("bufferViews") =>
    \A i \in 1..Len(doc.bufferViews.a) :
      (\A j \in 1..i : CompleteBufferView(doc.bufferViews.a[j])) =>
        LET e == doc.bufferViews.a[i]
        IN  /\ Appended >= i
            /\ e.byteOffset.t # "uint" => BufferViewOf(i).byteOffset = 0
            /\ e.byteStride.t # "uint" => BufferViewOf(i).byteStride = Unset
            /\ e.target.t # "uint" => BufferViewOf(i).target = Unset

C17_AccessorDefaults ==
  ParsedArray("accessors") =>
    \A i \in 1..Len(doc.accessors.a) :
      (\A j \in 1..i : AcceptableAccessor(doc.accessors.a[j])) =>
        LET e == doc.accessors.a[i]
        IN  /\ Appended >= i
            /\ e.byteOffset.t # "uint" => AccessorOf(i).byteOffset = 0
            /\ e.normalized.t # "bool" => AccessorOf(i).normalized = FALSE
            /\ e.bufferView.t # "uint" => AccessorOf(i).bufferViewIndex = Unset

C17_PrimitiveDefaults ==
  ParsedArray("meshes") =>
    \A i \in 1..Len(doc.meshes.a) :
      (\A j \in 1..i : CompleteMesh(doc.meshes.a[j])) =>
        LET e == doc.meshes.a[i]
        IN  /\ Appended >= i
            /\ e.primitives.t = "arr" =>
                 /\ Len(MeshOf(i).primitives) = Len(e.primitives.a)
                 /\ \A k \in 1..Len(e.primitives.a) :
                      LET p == e.primitives.a[k]
                          q == MeshOf(i).primitives[k]
                      IN  /\ p.mode.t # "uint" => q.type = 4
                          /\ p.indices.t # "uint" => q.indicesAccessor = Unset
                          /\ p.material.t # "uint" => q.materialIndex = Unset

C17_OptionalFieldsDefault ==
  C17_BufferViewDefaults /\ C17_AccessorDefaults /\ C17_PrimitiveDefaults

\* a mesh appended whose second primitive has a string for "mode", a double
\* for "indices" and null for "material"
C17_Witness ==
  /\ ParsedArray("meshes")
  /\ Appended >= 1
  /\ doc.meshes.a[1].primitives = Arr(<<OtherPrimitive, WrongTypedPrimitive>>)
  /\ MeshOf(1).primitives[2].type = 4
  /\ MeshOf(1).primitives[2].indicesAccessor = Unset
  /\ MeshOf(1).primitives[2].materialIndex = Unset
  /\ MeshOf(1).primitives[1].type = 1
  /\ errorCode = "None"

\* What the last parser call built from the i-th element of its array, for
\* i up to the number it appended.
BufferOf(i) == parsedAsset.buffers[last.before + i]

\* A string with the scheme "data:", and what makes such a string malformed:
\* no ';', or no ',' behind the first ';', or something other than base64
\* between the two.
StartsWithDataColon(s) == Len(s) >= 5 /\ SubSeq(s, 1, 5) = sDataColon
Least(I) == CHOOSE x \in I : \A y \in I : x <= y
Semicolons(s) == {k \in 1..Len(s) : s[k] = ";"}
CommasBehind(s) == {k \in 1..Len(s) : s[k] = "," /\ k > Least(Semicolons(s))}
Malformed(s) ==
  \/ Semicolons(s) = {}
  \/ CommasBehind(s) = {}
  \/ SubSeq(s, Least(Semicolons(s)) + 1, Least(CommasBehind(s)) - 1) # sBase64
MalformedDataUri(v) ==
  v.t = "str" /\ StartsWithDataColon(StrTab[v.n]) /\ Malformed(StrTab[v.n])

\* C18: decodeUri answers a data URI without ';', without ',' behind the ';'
\* or with an encoding other than base64 with InvalidGltf and location None;
\* the buffer or image that has such a uri is rejected and its parser
\* returns InvalidGltf.
C18_MalformedDataUriRejected ==
  /\ ParsedArray("buffers") =>
       \A i \in 1..Len(doc.buffers.a) :
         LET e == doc.buffers.a[i]
         IN  (e.obj /\ e.byteLength.t = "uint" /\ MalformedDataUri(e.uri)) =>
               /\ decodeUri(StrTab[e.uri.n], directory, options) = UriFailure
               /\ last.ret = "InvalidGltf"
               /\ errorCode = "InvalidGltf"
               /\ Appended < i
  /\ ParsedArray("images") =>
       \A i \in 1..Len(doc.images.a) :
         LET e == doc.images.a[i]
         IN  (e.obj /\ MalformedDataUri(e.uri)) =>
               /\ decodeUri(StrTab[e.uri.n], directory, options) = UriFailure
               /\ last.ret = "InvalidGltf"
               /\ errorCode = "InvalidGltf"
               /\ Appended < i

\* parseBuffers appending a buffer with a base64 data URI and failing at the
\* next one, whose data URI names the encoding hex
C18_Witness ==
  /\ ParsedArray("buffers")
  /\ Len(doc.buffers.a) = 2
  /\ doc.buffers.a[1].uri = S(1)
  /\ doc.buffers.a[2].uri = S(4)
  /\ doc.buffers.a[2].byteLength.t = "uint"
  /\ Appended = 1
  /\ last.visited = 2
  /\ errorCode = "InvalidGltf"

\* C19 as stated: a uri is taken as a data URI exactly when it begins with
\* "data:"; every other string gives, without an error, the location
\* FilePathWithByteRange and the path directory / uri.
C19_OnlyDataColonIsDataUri ==
  ParsedArray("buffers") =>
    \A i \in 1..Len(doc.buffers.a) :
      LET e == doc.buffers.a[i]
      IN  /\ ((\A j \in 1..i : /\ doc.buffers.a[j].obj
                               /\ doc.buffers.a[j].byteLength.t = "uint"
                               /\ doc.buffers.a[j].uri.t = "str"
                               /\ ~StartsWithDataColon(StrTab[doc.buffers.a[j].uri.n]))) =>
                /\ Appended >= i
                /\ BufferOf(i).location = "FilePathWithByteRange"
                /\ BufferOf(i).data.path = <<directory>> \o StrTab[e.uri.n]
          /\ (i <= Appended /\ e.uri.t = "str" /\ StartsWithDataColon(StrTab[e.uri.n])) =>
                BufferOf(i).location = "VectorWithMime"

\* C20 as stated: from "data:application/octet-stream;base64," followed by a
\* payload, decodeUri gives no error, VectorWithMime, OctetStream, and the
\* bytes decoded from the payload: the base64 primitive receives what stands
\* strictly behind the comma, the same with and without DontUseSIMD.
OctetStreamPrefix == sDataColon \o mimeTypeOctetStream \o <<";">> \o sBase64 \o <<",">>
HasOctetStreamPrefix(s) ==
  Len(s) >= Len(OctetStreamPrefix) /\ SubSeq(s, 1, Len(OctetStreamPrefix)) = OctetStreamPrefix
PayloadOf(s) == SubSeq(s, Len(OctetStreamPrefix) + 1, Len(s))

C20_PayloadBehindComma ==
  ParsedArray("buffers") =>
    \A i \in 1..Len(doc.buffers.a) :
      LET e == doc.buffers.a[i]
      IN  (e.obj /\ e.uri.t = "str" /\ HasOctetStreamPrefix(StrTab[e.uri.n])) =>
            LET str == StrTab[e.uri.n]
                r == decodeUri(str, directory, options)
            IN  /\ r.error = "None"
                /\ r.location = "VectorWithMime"
                /\ r.source.mimeType = "OctetStream"
                /\ r.source.bytes.input = PayloadOf(str)
                /\ decodeUri(str, directory, options \cup {"DontUseSIMD"}).source.bytes.input
                     = decodeUri(str, directory, options \ {"DontUseSIMD"}).source.bytes.input
                /\ i <= Appended => BufferOf(i).data.bytes = r.source.bytes

\* C21: once the error code of a handle is not None, an entity-parser call
\* leaves it not None and returns it, while still appending what its callback
\* accepts (its whole array when every element is accepted); a retrieval
\* returns nothing.
RetrievalStep == last'.op \in {"getParsedAsset", "getParsedAssetPointer"}

C21_Step ==
  /\ (ParseStep /\ errorCode # "None") =>
       LET k == last'.kind
       IN  /\ errorCode' # "None"
           /\ last'.ret = errorCode'
           /\ (doc[k].t = "arr" /\ \A i \in 1..Len(doc[k].a) : CallbackOf(k, doc[k].a[i]).ok) =>
                 /\ parsedAsset'[k] = parsedAsset[k] \o [i \in 1..Len(doc[k].a) |->
                                                         CallbackOf(k, doc[k].a[i]).ent]
                 /\ errorCode' = errorCode
  /\ (RetrievalStep /\ errorCode # "None") => last'.ret = "null"

C21_ErrorCodeSticky == [][C21_Step]_vars

\* parseScenes appending its one valid scene and returning InvalidGltf after
\* parseBuffers failed on the same handle
C21_Witness ==
  /\ ParseJust("scenes")
  /\ calls = 2
  /\ doc.buffers.t = "arr"
  /\ Len(doc.buffers.a) = 1
  /\ ~BufferCallback(doc.buffers.a[1], directory, options).ok
  /\ doc.scenes.t = "arr"
  /\ Len(doc.scenes.a) = 1
  /\ SceneCallback(doc.scenes.a[1]).ok
  /\ Len(parsedAsset.scenes) = 1
  /\ parsedAsset.buffers = <<>>
  /\ errorCode = "InvalidGltf"
  /\ last.ret = "InvalidGltf"

\* C22 as stated: an enclosing entity whose nested array (a mesh's
\* "primitives", a node's "children", a scene's "nodes") is present and holds
\* an element that fails validation is not appended, and its top-level parser
\* fails with InvalidGltf.
NestedKinds == {"meshes", "nodes", "scenes"}

NestedFails(kind, e) ==
  /\ e.obj
  /\ \/ /\ kind = "meshes"
        /\ e.primitives.t = "arr"
        /\ \E k \in 1..Len(e.primitives.a) : ~CompletePrimitive(e.primitives.a[k])
     \/ kind = "nodes" /\ e.children.t = "arr" /\ ~AllUint(e.children)
     \/ kind = "scenes" /\ e.nodes.t = "arr" /\ ~AllUint(e.nodes)

C22_NestedFailureRejects ==
  \A kind \in NestedKinds : ParsedArray(kind) =>
    \A i \in 1..Len(doc[kind].a) : NestedFails(kind, doc[kind].a[i]) =>
      /\ last.ret = "InvalidGltf"
      /\ errorCode = "InvalidGltf"
      /\ Appended < i

\* C23 as stated: when an element of a top-level array fails validation, the
\* collection of that array holds, after the parser returned, none of the
\* entities built from the earlier elements of the array.
C23_NoPartialArray ==
  \A kind \in Kinds : ParsedArray(kind) =>
    ((\E i \in 1..Len(doc[kind].a) : StructurallyInvalid(kind, doc[kind].a[i])) =>
       /\ Appended = 0
       /\ parsedAsset[kind] = SubSeq(parsedAsset[kind], 1, last.before))

\* C24 as stated: a later loadGLTF on the same Parser does not change what
\* the parsers of an earlier handle read: every parser call works on the
\* array of the document its handle was created from.
C24_FirstDocumentRead ==
  \A kind \in Kinds : ParseJust(kind) =>
    LET r == iterateOverArray(loaded[kind],
               [i \in 1..Len(loaded[kind].a) |-> CallbackOf(kind, loaded[kind].a[i])])
    IN  /\ last.visited = r.visited
        /\ SubSeq(parsedAsset[kind], last.before + 1, Len(parsedAsset[kind])) = r.out

\* C25 as stated: a node built from a "matrix" of 16 numbers holds them in
\* order: matrix[k] is the k-th entry of the array, for k in 0..15.
C25_MatrixInOrder ==
  ParsedArray("nodes") =>
    \A i \in 1..Appended : SixteenNumbers(doc.nodes.a[i].matrix) =>
      \A k \in 0..(MatrixSize - 1) : NodeOf(i).matrix[k] = doc.nodes.a[i].matrix.a[k + 1].n

\* What a handle's parsers write, as a value: the Asset and the error code.
Written == [asset |-> parsedAsset, error |-> errorCode]
Fresh == [asset |-> EmptyAsset, error |-> "None"]

\* The parser of kind applied to such a value, over the document of the
\* handle: the entities of its array are appended to its collection,
\* parseScenes sets defaultScene from "scene", and a failure sets the code.
After(kind, st) ==
  LET r == iterateOverArray(doc[kind],
             [i \in 1..Len(doc[kind].a) |-> CallbackOf(kind, doc[kind].a[i])])
      base == IF kind = "scenes" /\ doc.scene.t = "uint"
              THEN [st.asset EXCEPT !.defaultScene = Opt(doc.scene.n)]
              ELSE st.asset
  IN  [asset |-> [base EXCEPT ![kind] = @ \o r.out],
       error |-> IF r.error # "None" THEN r.error ELSE st.error]

RECURSIVE AfterAll(_, _)
AfterAll(order, st) ==
  IF order = <<>> THEN st ELSE AfterAll(Tail(order), After(Head(order), st))

DocumentOrder == <<"buffers", "bufferViews", "accessors", "images", "textures",
                   "meshes", "nodes", "scenes">>
ReverseOrder == [i \in 1..8 |-> DocumentOrder[9 - i]]
ScenesFirst == <<"scenes", "meshes", "buffers", "nodes", "images", "accessors",
                 "textures", "bufferViews">>

\* C26: every parser call is After applied to what the handle holds; two
\* parsers applied one after the other give the same Asset and error code in
\* either order, on a fresh handle and on a handle after one parser call;
\* and the eight parsers, once each on a fresh handle, give the same in
\* document order, in the reverse order and in a third order.
\* getParsedAsset depends on the error code only.
C26_Step ==
  ParseStep => [asset |-> parsedAsset', error |-> errorCode'] = After(last'.kind, Written)

C26_Commute ==
  (live /\ held /\ calls <= 1) =>
    /\ LET one == [k \in Kinds |-> After(k, Written)]
       IN  \A i, j \in 1..8 : i < j =>
             After(DocumentOrder[i], one[DocumentOrder[j]])
               = After(DocumentOrder[j], one[DocumentOrder[i]])
    /\ calls = 0 =>
         /\ AfterAll(DocumentOrder, Fresh) = AfterAll(ReverseOrder, Fresh)
         /\ AfterAll(DocumentOrder, Fresh) = AfterAll(ScenesFirst, Fresh)

C26_OrderIndependent == [][C26_Step]_vars /\ []C26_Commute

\* parseBuffers failing after parseScenes, on a document with both arrays and
\* a default scene: what the handle holds is what parseScenes after
\* parseBuffers gives
C26_Witness ==
  /\ ParseJust("buffers")
  /\ calls = 2
  /\ last.ret = "InvalidGltf"
  /\ Len(parsedAsset.scenes) = 1
  /\ parsedAsset.defaultScene = Opt(0)
  /\ errorCode = "InvalidGltf"
  /\ Written = After("scenes", After("buffers", Fresh))

\* C27: a retrieval returns the Asset exactly when the handle still holds it
\* and no error is recorded; getParsedAsset that returned the Asset leaves
\* the handle empty, getParsedAssetPointer never changes what the handle
\* holds; an emptied handle stays empty and every later retrieval on it
\* returns null.
C27_Step ==
  /\ RetrievalStep =>
       /\ last'.ret = IF held /\ errorCode = "None" THEN "asset" ELSE "null"
       /\ parsedAsset' = parsedAsset
  /\ (last'.op = "getParsedAsset" /\ last'.ret = "asset") => ~held'
  /\ last'.op = "getParsedAssetPointer" => held' = held
  /\ (live /\ ~held) =>
       /\ ~held'
       /\ RetrievalStep => last'.ret = "null"

C27_TransferredOnce == [][C27_Step]_vars

\* getParsedAssetPointer returning null on a handle without an error, after
\* getParsedAsset took the Asset
C27_Witness ==
  /\ last.op = "getParsedAssetPointer"
  /\ last.ret = "null"
  /\ live
  /\ ~held
  /\ errorCode = "None"

====
